---- MODULE Spec2Model ----
(***************************************************************************)
(* Heart-rate driven actuator bridge: main.js (control loop, connection    *)
(* supervisor, telemetry server, shutdown coordinator), bp.js (actuator    *)
(* client singleton) and the manual-control entry of web_ui.js.            *)
(*                                                                         *)
(* Node runs every callback to completion; an `await` on real I/O is a     *)
(* suspension point.  One action of this module is one callback run: from  *)
(* the event that starts it to its next suspension point or its end.       *)
(***************************************************************************)
EXTENDS Integers, Sequences, FiniteSets, TLC

\* ---------------------------------------------------------------- CONFIG
CONNECTION_RETRIES == 5
HR_THRESHOLD == 100

\* ---------------------------------------------------------------- bounds
\* telemetry sessions that may be connected
NumSessions == 1
\* devices the actuator service may announce
NumDevices == 2
\* device commands of ticks and manual commands awaiting their result
MaxInFlight == 2
\* cap of the teardown run counter
MaxTeardownRuns == 2

Sessions == 1..NumSessions
Devices == 1..NumDevices
Callers == {"retry", "api"}
Cmds == {"on", "off"}
Srcs == {"tick", "ui"}

Undefined == "undefined"
NaN == "NaN"

VARIABLES
  \* main.js `state`
  heartRate, vibrationState, connectRetries, shutdownInProgress,
  \* main.js timers and resources
  intervalOn, retryTimer, wssOpen, proc, exitCode,
  \* suspended async functions
  cpc, spc, dpc, pend,
  \* bp.js module state
  clientSet, clientConnected, listening, device,
  isConnecting, isConnected, lastError, staleTimer,
  \* what the last callback run sent or returned
  emit, ret,
  \* history
  attempts, teardownRuns, sdLog, failedSteps, last, lastFailed, received, scen

hrVars == <<heartRate, vibrationState>>
supVars == <<connectRetries, retryTimer, attempts>>
sdVars == <<shutdownInProgress, intervalOn, spc, teardownRuns, sdLog, failedSteps,
            wssOpen>>
exitVars == <<proc, exitCode>>
bpConn == <<clientSet, clientConnected, listening, device, isConnected>>
bpRest == <<isConnecting, lastError, staleTimer>>
mainVars == <<heartRate, vibrationState, connectRetries, shutdownInProgress,
              intervalOn, retryTimer, wssOpen, proc, exitCode, spc, pend,
              attempts, teardownRuns, sdLog, failedSteps>>
bpVars == <<clientSet, clientConnected, listening, device,
            isConnecting, isConnected, lastError, staleTimer>>
vars == <<heartRate, vibrationState, connectRetries, shutdownInProgress,
          intervalOn, retryTimer, wssOpen, proc, exitCode,
          cpc, spc, dpc, pend,
          clientSet, clientConnected, listening, device,
          isConnecting, isConnected, lastError, staleTimer,
          emit, ret, attempts, teardownRuns, sdLog, failedSteps, last, lastFailed,
          received, scen>>

\* ------------------------------------------------------- pure functions
Digits == <<"0", "1", "2", "3", "4", "5", "6", "7", "8", "9">>
IsDigit(c) == \E i \in 1..10 : Digits[i] = c
DigitVal(c) == (CHOOSE i \in 1..10 : Digits[i] = c) - 1

RECURSIVE SkipWhiteSpace(_)
SkipWhiteSpace(t) ==
  IF t # <<>> /\ Head(t) = " " THEN SkipWhiteSpace(Tail(t)) ELSE t

RECURSIVE DigitRun(_, _)
DigitRun(t, acc) ==
  IF t # <<>> /\ IsDigit(Head(t))
  THEN DigitRun(Tail(t), acc * 10 + DigitVal(Head(t)))
  ELSE acc

\* parseInt(text, 10): leading white space skipped, an optional sign, then the
\* longest run of decimal digits; whatever follows the run is ignored; NaN when
\* the run is empty.  A text is a tuple of one-character strings.
parseInt(t) ==
  LET u == SkipWhiteSpace(t)
      signed == u # <<>> /\ Head(u) \in {"-", "+"}
      v == IF signed THEN Tail(u) ELSE u
  IN IF v = <<>> \/ ~IsDigit(Head(v))
     THEN [nan |-> TRUE, val |-> 0]
     ELSE [nan |-> FALSE,
           val |-> (IF signed /\ Head(u) = "-" THEN -1 ELSE 1) * DigitRun(v, 0)]

isNaN(r) == r.nan

\* The state the threshold comparison of processHeartRate asks for.
Desired(hr) == IF hr < HR_THRESHOLD THEN "on" ELSE "off"

\* isReady() of bp.js
isReady == clientSet /\ clientConnected /\ device # 0

\* ------------------------------------------------------------- messages
\* text payloads a telemetry client may put in inputSettings.text
Texts == { <<"1", "2", "0">>, <<"9", "5">>, <<"1", "0", "5">>, <<"1", "0", "0">>,
           <<"-", "5">>, <<"a", "b", "c">>, <<"9", "5", "x">>, <<>> }

\* An inbound payload after data.toString(): `kind` says whether JSON.parse
\* throws ("notjson"), yields null ("null") or yields an object ("obj"); the
\* has* fields say which members the object carries.
Payload(kind, op, hasD, rtype, rid, hasData, name, hasSettings, text) ==
  [kind |-> kind, op |-> op, hasD |-> hasD, requestType |-> rtype,
   requestId |-> rid, hasData |-> hasData, inputName |-> name,
   hasSettings |-> hasSettings, text |-> text]

HeartRateRequests ==
  { Payload("obj", 6, TRUE, "SetInputSettings", "r1", TRUE, "heartrate", TRUE, t) :
      t \in Texts }

OtherPayloads ==
  { Payload("notjson", 0, FALSE, Undefined, Undefined, FALSE, Undefined, FALSE, <<>>),
    Payload("null", 0, FALSE, Undefined, Undefined, FALSE, Undefined, FALSE, <<>>),
    Payload("obj", 1, FALSE, Undefined, Undefined, FALSE, Undefined, FALSE, <<>>),
    Payload("obj", 6, FALSE, Undefined, Undefined, FALSE, Undefined, FALSE, <<>>),
    Payload("obj", 6, TRUE, "GetVersion", "r1", FALSE, Undefined, FALSE, <<>>),
    Payload("obj", 6, TRUE, "SetInputSettings", "r1", FALSE, Undefined, FALSE, <<>>),
    Payload("obj", 6, TRUE, "SetInputSettings", "r1", TRUE, "heartrate", FALSE, <<>>),
    Payload("obj", 6, TRUE, "SetInputSettings", "r1", TRUE, "other", TRUE, <<"9", "5">>),
    Payload("obj", 6, TRUE, "SetInputSettings", Undefined, TRUE, "heartrate", TRUE, <<"9", "5">>) }

Payloads == HeartRateRequests \cup OtherPayloads

\* messages the server sends
Hello == [op |-> 0, requestType |-> Undefined, requestId |-> Undefined]
Identified == [op |-> 2, requestType |-> Undefined, requestId |-> Undefined]
RequestResponse(rtype, rid) ==
  [op |-> 7, requestType |-> rtype, requestId |-> rid, result |-> TRUE, code |-> 100]

\* nothing sent to a telemetry client, no status notification
NoEmit == [ws |-> <<>>, ui |-> "none"]
NoRet == <<>>


\* ---------------------------------------------------------------- bp.js
SetCpc(c, v) == cpc' = [cpc EXCEPT ![c] = v]

\* the point where safeDisconnect() first suspends, or how it ends at once
SafeDisconnectEntry ==
  IF ~clientSet THEN "return"
  ELSE IF device # 0 THEN "stop"
  ELSE IF clientConnected THEN "disconnect"
  ELSE "finally"

\* safeDisconnect() once device.stop() settled (its failure is swallowed); a
\* client set to null meanwhile makes `client.connected` throw into the outer
\* catch, which leads to the finally block as well
SafeDisconnectAfterStop ==
  IF clientSet /\ clientConnected THEN "disconnect" ELSE "finally"

\* finally block of safeDisconnect
SafeDisconnectFinally ==
  /\ clientSet' = FALSE
  /\ clientConnected' = FALSE
  /\ listening' = FALSE
  /\ device' = 0
  /\ isConnected' = FALSE

\* `throw error` of the catch block, through the finally block, to the caller
ConnectThrow(c) ==
  /\ isConnecting' = FALSE
  /\ SetCpc(c, "idle")
  /\ ret' = <<c, "error">>

\* catch block of connectToButtplug, entered with the deviceadded listener in
\* state lst, up to the suspension inside safeDisconnect() or to the throw
ConnectCatch(c, lst) ==
  /\ lastError' = "error"
  /\ LET ph == SafeDisconnectEntry IN
     CASE ph = "return" ->
            /\ ConnectThrow(c)
            /\ listening' = lst
            /\ UNCHANGED <<clientSet, clientConnected, device, isConnected>>
       [] ph = "stop" ->
            /\ SetCpc(c, "cleanupStop")
            /\ ret' = NoRet
            /\ listening' = lst
            /\ UNCHANGED <<clientSet, clientConnected, device, isConnected, isConnecting>>
       [] ph = "disconnect" ->
            /\ SetCpc(c, "cleanupDisconnect")
            /\ ret' = NoRet
            /\ listening' = lst
            /\ UNCHANGED <<clientSet, clientConnected, device, isConnected, isConnecting>>
       [] ph = "finally" ->
            /\ SafeDisconnectFinally
            /\ ConnectThrow(c)

\* (variant) the guard moved inside the try block: its throw passes through
\* the finally block, which clears isConnecting
ConnectBusy_InsideTry(c) ==
  /\ ret' = <<c, "busy">>
  /\ isConnecting' = FALSE
  /\ UNCHANGED <<clientSet, clientConnected, listening, device, isConnected,
                 lastError, staleTimer, cpc>>

\* the guard of connectToButtplug throws before the try block is entered
ConnectBusy(c) ==
  /\ ret' = <<c, "busy">>
  /\ UNCHANGED <<bpVars, cpc>>

\* connectToButtplug(url) up to `await client.connect(connector)`
ConnectCall(c) ==
  /\ cpc[c] = "idle"
  /\ IF isConnecting
     THEN ConnectBusy(c)
     ELSE IF clientSet /\ clientConnected
     THEN /\ ret' = <<c, "ok">>
          /\ UNCHANGED <<bpVars, cpc>>
     ELSE /\ isConnecting' = TRUE
          /\ lastError' = "null"
          /\ clientSet' = TRUE
          /\ clientConnected' = FALSE
          /\ listening' = FALSE
          /\ SetCpc(c, "connect")
          /\ ret' = NoRet
          /\ UNCHANGED <<device, isConnected, staleTimer>>

\* client.connect(connector) settled; on success startScanning() is called
ConnectSettled(c, ok) ==
  /\ cpc[c] = "connect"
  /\ UNCHANGED staleTimer
  /\ IF ok /\ clientSet
     THEN /\ clientConnected' = TRUE
          /\ SetCpc(c, "scan")
          /\ ret' = NoRet
          /\ UNCHANGED <<clientSet, listening, device, isConnecting, isConnected, lastError>>
     ELSE ConnectCatch(c, listening)

\* client.startScanning() settled; on success waitForDevice() arms its timer
\* and registers the deviceadded listener; with client null the registration
\* throws after the timer was armed
ScanSettled(c, ok) ==
  /\ cpc[c] = "scan"
  /\ IF ok /\ clientSet
     THEN /\ listening' = TRUE
          /\ SetCpc(c, "wait")
          /\ ret' = NoRet
          /\ UNCHANGED <<clientSet, clientConnected, device, isConnecting,
                         isConnected, lastError, staleTimer>>
     ELSE /\ staleTimer' = (staleTimer \/ ok)
          /\ ConnectCatch(c, listening)

\* 'deviceadded' listener of waitForDevice, and the rest of connectToButtplug
\* when an attempt waits for it
DeviceAdded(d) ==
  /\ clientSet /\ clientConnected /\ listening
  /\ device' = d
  /\ UNCHANGED <<clientSet, clientConnected, listening, lastError, staleTimer>>
  /\ IF \E c \in Callers : cpc[c] = "wait"
     THEN /\ isConnected' = TRUE
          /\ isConnecting' = FALSE
          /\ cpc' = [c \in Callers |-> IF cpc[c] = "wait" THEN "idle" ELSE cpc[c]]
          /\ ret' = <<CHOOSE c \in Callers : cpc[c] = "wait", "ok">>
     ELSE /\ ret' = NoRet
          /\ UNCHANGED <<isConnected, isConnecting, cpc>>

\* timer of waitForDevice: listeners removed, the wait rejected
DiscoveryTimeout(c) ==
  /\ cpc[c] = "wait"
  /\ clientSet
  /\ UNCHANGED staleTimer
  /\ ConnectCatch(c, FALSE)

\* timer of waitForDevice with client null: client.removeAllListeners throws
\* inside the timer callback and the wait is never settled
DiscoveryTimeoutThrow(c) ==
  /\ cpc[c] = "wait"
  /\ ~clientSet
  /\ SetCpc(c, "hung")
  /\ ret' = NoRet
  /\ UNCHANGED <<isConnecting, lastError, staleTimer>>

\* timer of a waitForDevice whose listener registration threw
StaleTimeout ==
  /\ staleTimer
  /\ clientSet
  /\ staleTimer' = FALSE
  /\ listening' = FALSE
  /\ ret' = NoRet
  /\ UNCHANGED <<clientSet, clientConnected, device, isConnecting, isConnected,
                 lastError, cpc>>

StaleTimeoutThrow ==
  /\ staleTimer
  /\ ~clientSet
  /\ staleTimer' = FALSE
  /\ ret' = NoRet
  /\ UNCHANGED <<isConnecting, lastError, cpc>>

\* device.stop() of the safeDisconnect() in the catch block settled
CleanupStopSettled(c) ==
  /\ cpc[c] = "cleanupStop"
  /\ UNCHANGED <<lastError, staleTimer>>
  /\ IF SafeDisconnectAfterStop = "disconnect"
     THEN /\ SetCpc(c, "cleanupDisconnect")
          /\ ret' = NoRet
          /\ UNCHANGED <<clientSet, clientConnected, listening, device,
                         isConnected, isConnecting>>
     ELSE /\ SafeDisconnectFinally
          /\ ConnectThrow(c)

\* client.disconnect() of the safeDisconnect() in the catch block settled
CleanupDisconnectSettled(c) ==
  /\ cpc[c] = "cleanupDisconnect"
  /\ UNCHANGED <<lastError, staleTimer>>
  /\ SafeDisconnectFinally
  /\ ConnectThrow(c)

\* the actuator service closes the connection: client.connected turns false
RemoteDrop ==
  /\ clientSet /\ clientConnected
  /\ clientConnected' = FALSE
  /\ ret' = NoRet
  /\ UNCHANGED <<clientSet, listening, device, isConnecting, isConnected,
                 lastError, staleTimer, cpc>>


\* -------------------------------------------------------------- main.js
Running == exitCode = -1

InFlight == pend[<<"tick", "on">>] + pend[<<"tick", "off">>]
            + pend[<<"ui", "on">>] + pend[<<"ui", "off">>]

\* --------------------------------------------------------------- history
\* The sample stream 120, 95, 95, 105 with one tick after each sample.  scen.k
\* is the sample reached, scen.phase says whether sample k was fed ("fed"), its
\* tick awaits a device command ("awaiting") or its tick is over ("ticked"),
\* scen.cmds counts the device commands issued since sample 1 was fed.  Any
\* step outside the stream ends the observation.
ScenarioSamples == << <<"1", "2", "0">>, <<"9", "5">>, <<"9", "5">>, <<"1", "0", "5">> >>
ScenIdle == [k |-> 0, phase |-> "idle", cmds |-> 0]

ScenStart ==
  /\ isReady /\ vibrationState = "off" /\ InFlight = 0
  /\ ~shutdownInProgress /\ intervalOn

ScenNext(e) ==
  LET issued == IF InFlight' > InFlight THEN 1 ELSE 0 IN
  CASE e[1] = "message" /\ e[2] \in HeartRateRequests ->
         IF scen.phase = "ticked" /\ scen.k < Len(ScenarioSamples)
            /\ e[2].text = ScenarioSamples[scen.k + 1]
         THEN [k |-> scen.k + 1, phase |-> "fed", cmds |-> scen.cmds]
         ELSE IF ScenStart /\ e[2].text = ScenarioSamples[1]
         THEN [k |-> 1, phase |-> "fed", cmds |-> 0]
         ELSE ScenIdle
    [] e[1] = "tick" /\ scen.phase = "fed" ->
         [k |-> scen.k,
          phase |-> IF issued = 1 THEN "awaiting" ELSE "ticked",
          cmds |-> scen.cmds + issued]
    [] e[1] = "tickSettled" /\ scen.phase = "awaiting" ->
         IF e[2] THEN [k |-> scen.k, phase |-> "ticked", cmds |-> scen.cmds]
         ELSE ScenIdle
    [] OTHER -> ScenIdle

\* sdLog records the steps of the shutdown sequence as they start and finish,
\* failedSteps the awaited calls of the sequence that failed
Logged(x) == \E i \in 1..Len(sdLog) : sdLog[i] = x

\* whether the callback that ran last was a shutdown trigger ("signal"), a
\* tick that called again the command whose failure ended the tick before
\* ("retick") or a tick that called a command right after a manual command
\* succeeded ("override"); the device command that failed in it (<<>> if none
\* did); whether a heart-rate update ever changed the sample; and the sample
\* stream observed so far
Watch(e) ==
  /\ last' = IF e[1] = "signal" THEN "signal"
             ELSE IF /\ e[1] = "tick"
                     /\ lastFailed # <<>>
                     /\ lastFailed[1] = "tickSettled"
                     /\ pend'[<<"tick", lastFailed[2]>>] > pend[<<"tick", lastFailed[2]>>]
             THEN "retick"
             ELSE IF e[1] = "tick" /\ emit.ui = "ui" /\ pend' # pend
             THEN "override"
             ELSE "other"
  /\ received' = (received \/ (e[1] = "message" /\ heartRate' # heartRate))
  /\ lastFailed' = IF e[1] \in {"tickSettled", "manualSettled"} /\ ~e[2]
                   THEN <<e[1], e[3]>>
                   ELSE <<>>
  /\ scen' = ScenNext(e)

\* on() / off() of bp.js called with a ready device: device.vibrate(1.0) or
\* device.stop() is sent and awaited
Issue(src, cmd) ==
  /\ InFlight < MaxInFlight
  /\ pend' = [pend EXCEPT ![<<src, cmd>>] = @ + 1]

\* `await disconnectButtplug()` of gracefulShutdown up to its first suspension;
\* when safeDisconnect() ends at once, the wss.close() after it as well
ShutdownDisconnect(log) ==
  LET ph == SafeDisconnectEntry IN
  CASE ph = "stop" ->
         /\ spc' = "stop"
         /\ sdLog' = log \o <<"disconnect">>
         /\ UNCHANGED <<bpConn, wssOpen>>
    [] ph = "disconnect" ->
         /\ spc' = "disconnect"
         /\ sdLog' = log \o <<"disconnect">>
         /\ UNCHANGED <<bpConn, wssOpen>>
    [] ph = "return" ->
         /\ spc' = "close"
         /\ wssOpen' = FALSE
         /\ sdLog' = log \o <<"disconnect", "disconnected", "close">>
         /\ UNCHANGED bpConn
    [] ph = "finally" ->
         /\ SafeDisconnectFinally
         /\ spc' = "close"
         /\ wssOpen' = FALSE
         /\ sdLog' = log \o <<"disconnect", "disconnected", "close">>

\* (variant) the latch test dropped: every trigger runs the teardown
gracefulShutdown_NoLatch ==
  /\ teardownRuns < MaxTeardownRuns
  /\ shutdownInProgress' = TRUE
  /\ intervalOn' = FALSE
  /\ teardownRuns' = teardownRuns + 1
  /\ UNCHANGED failedSteps
  /\ IF isReady /\ vibrationState = "on"
     THEN /\ spc' = "off"
          /\ sdLog' = sdLog \o <<"timer", "off">>
          /\ UNCHANGED <<bpConn, wssOpen>>
     ELSE ShutdownDisconnect(sdLog \o <<"timer">>)

\* (variant) off() not awaited: the connection is torn down while the
\* disengage command is still on its way
gracefulShutdown_NoAwaitOff ==
  IF shutdownInProgress
  THEN UNCHANGED <<sdVars, bpConn>>
  ELSE /\ teardownRuns < MaxTeardownRuns
       /\ shutdownInProgress' = TRUE
       /\ intervalOn' = FALSE
       /\ teardownRuns' = teardownRuns + 1
       /\ UNCHANGED failedSteps
       /\ IF isReady /\ vibrationState = "on"
          THEN ShutdownDisconnect(sdLog \o <<"timer", "off">>)
          ELSE ShutdownDisconnect(sdLog \o <<"timer">>)

\* gracefulShutdown() up to its first suspension
gracefulShutdown ==
  IF shutdownInProgress
  THEN UNCHANGED <<sdVars, bpConn>>
  ELSE /\ teardownRuns < MaxTeardownRuns
       /\ shutdownInProgress' = TRUE
       /\ intervalOn' = FALSE
       /\ teardownRuns' = teardownRuns + 1
       /\ UNCHANGED failedSteps
       /\ IF isReady /\ vibrationState = "on"
          THEN /\ spc' = "off"
               /\ sdLog' = sdLog \o <<"timer", "off">>
               /\ UNCHANGED <<bpConn, wssOpen>>
          ELSE ShutdownDisconnect(sdLog \o <<"timer">>)

\* SIGINT, SIGTERM or an uncaught exception
ShutdownTrigger(sig) ==
  /\ Running
  /\ gracefulShutdown
  /\ emit' = NoEmit
  /\ ret' = NoRet
  /\ UNCHANGED <<hrVars, supVars, exitVars, bpRest, cpc, dpc, pend>>
  /\ Watch(<<"signal">>)

\* (variant) the shutdown records the disengagement it forced
ShutdownOffSettled_RecordsOff(ok) ==
  /\ Running
  /\ spc = "off"
  /\ ok => clientSet /\ clientConnected
  /\ IF ok
     THEN /\ ShutdownDisconnect(sdLog \o <<"offDone">>)
          /\ UNCHANGED exitVars
     ELSE /\ spc' = "done"
          /\ exitCode' = 1
          /\ sdLog' = sdLog \o <<"offFailed", "exit">>
          /\ UNCHANGED <<bpConn, wssOpen, proc>>
  /\ failedSteps' = IF ok THEN failedSteps ELSE failedSteps \cup {"off"}
  /\ vibrationState' = IF ok THEN "off" ELSE vibrationState
  /\ emit' = NoEmit
  /\ ret' = NoRet
  /\ UNCHANGED <<heartRate, supVars, shutdownInProgress, intervalOn, teardownRuns,
                 bpRest, cpc, dpc, pend>>
  /\ Watch(<<"shutdown">>)

\* the off() of gracefulShutdown settled; its failure goes to the catch block
ShutdownOffSettled(ok) ==
  /\ Running
  /\ spc = "off"
  /\ ok => clientSet /\ clientConnected
  /\ IF ok
     THEN /\ ShutdownDisconnect(sdLog \o <<"offDone">>)
          /\ UNCHANGED exitVars
     ELSE /\ spc' = "done"
          /\ exitCode' = 1
          /\ sdLog' = sdLog \o <<"offFailed", "exit">>
          /\ UNCHANGED <<bpConn, wssOpen, proc>>
  /\ failedSteps' = IF ok THEN failedSteps ELSE failedSteps \cup {"off"}
  /\ emit' = NoEmit
  /\ ret' = NoRet
  /\ UNCHANGED <<hrVars, supVars, shutdownInProgress, intervalOn, teardownRuns,
                 bpRest, cpc, dpc, pend>>
  /\ Watch(<<"shutdown">>)

\* closing the listener once the actuator connection is torn down
ShutdownClose ==
  /\ spc' = "close"
  /\ wssOpen' = FALSE
  /\ sdLog' = sdLog \o <<"disconnected", "close">>

\* device.stop() inside the safeDisconnect() of gracefulShutdown settled; its
\* failure is caught and logged inside safeDisconnect()
ShutdownStopSettled(ok) ==
  /\ Running
  /\ spc = "stop"
  /\ ok => clientSet /\ clientConnected
  /\ failedSteps' = IF ok THEN failedSteps ELSE failedSteps \cup {"stop"}
  /\ IF SafeDisconnectAfterStop = "disconnect"
     THEN /\ spc' = "disconnect"
          /\ UNCHANGED <<bpConn, wssOpen, sdLog>>
     ELSE /\ SafeDisconnectFinally
          /\ ShutdownClose
  /\ emit' = NoEmit
  /\ ret' = NoRet
  /\ UNCHANGED <<hrVars, supVars, exitVars, shutdownInProgress, intervalOn,
                 teardownRuns, bpRest, cpc, dpc, pend>>
  /\ Watch(<<"shutdown">>)

\* client.disconnect() inside the safeDisconnect() of gracefulShutdown
\* settled; its failure is caught and logged inside safeDisconnect()
ShutdownDisconnectSettled(ok) ==
  /\ Running
  /\ spc = "disconnect"
  /\ failedSteps' = IF ok THEN failedSteps ELSE failedSteps \cup {"disconnect"}
  /\ SafeDisconnectFinally
  /\ ShutdownClose
  /\ emit' = NoEmit
  /\ ret' = NoRet
  /\ UNCHANGED <<hrVars, supVars, exitVars, shutdownInProgress, intervalOn,
                 teardownRuns, bpRest, cpc, dpc, pend>>
  /\ Watch(<<"shutdown">>)

\* callback of wss.close(), called with the error if the close failed: the
\* promise resolves whatever the callback is given; then buttplugProc.kill()
\* and process.exit(0)
ShutdownCloseSettled(ok) ==
  /\ Running
  /\ spc = "close"
  /\ failedSteps' = IF ok THEN failedSteps ELSE failedSteps \cup {"close"}
  /\ spc' = "done"
  /\ proc' = IF proc = "running" THEN "killed" ELSE proc
  /\ exitCode' = 0
  /\ sdLog' = sdLog \o (IF proc = "running" THEN <<"closed", "kill", "exit">>
                                           ELSE <<"closed", "exit">>)
  /\ emit' = NoEmit
  /\ ret' = NoRet
  /\ UNCHANGED <<hrVars, supVars, shutdownInProgress, intervalOn, teardownRuns,
                 wssOpen, bpVars, cpc, dpc, pend>>
  /\ Watch(<<"shutdown">>)

\* (variant) a strict comparison turned into <=
TickCommand_Inclusive ==
  IF ~isReady \/ shutdownInProgress THEN "none"
  ELSE IF heartRate <= HR_THRESHOLD /\ vibrationState # "on" THEN "on"
  ELSE IF heartRate > HR_THRESHOLD /\ vibrationState # "off" THEN "off"
  ELSE "none"

\* (variant) the state comparison dropped: the command is re-issued on every tick
TickCommand_NoStateCheck ==
  IF ~isReady \/ shutdownInProgress THEN "none"
  ELSE IF heartRate < HR_THRESHOLD THEN "on"
  ELSE "off"

\* (variant) a tick that follows a failed command backs off
TickCommand_SkipAfterFailure ==
  IF ~isReady \/ shutdownInProgress \/ lastFailed # <<>> THEN "none"
  ELSE IF heartRate < HR_THRESHOLD /\ vibrationState # "on" THEN "on"
  ELSE IF heartRate >= HR_THRESHOLD /\ vibrationState # "off" THEN "off"
  ELSE "none"

\* (variant) a manual command holds the control loop off for the next tick
TickCommand_ManualHold ==
  IF ~isReady \/ shutdownInProgress \/ emit.ui = "ui" THEN "none"
  ELSE IF heartRate < HR_THRESHOLD /\ vibrationState # "on" THEN "on"
  ELSE IF heartRate >= HR_THRESHOLD /\ vibrationState # "off" THEN "off"
  ELSE "none"

\* (variant) the control loop waits for the first heart-rate update
TickCommand_WaitsForSample ==
  IF ~isReady \/ shutdownInProgress \/ ~received THEN "none"
  ELSE IF heartRate < HR_THRESHOLD /\ vibrationState # "on" THEN "on"
  ELSE IF heartRate >= HR_THRESHOLD /\ vibrationState # "off" THEN "off"
  ELSE "none"

\* the branch processHeartRate() takes: the command it calls, or "none"
TickCommand ==
  IF ~isReady \/ shutdownInProgress THEN "none"
  ELSE IF heartRate < HR_THRESHOLD /\ vibrationState # "on" THEN "on"
  ELSE IF heartRate >= HR_THRESHOLD /\ vibrationState # "off" THEN "off"
  ELSE "none"

\* one firing of mainInterval: processHeartRate() up to its await
processHeartRate ==
  /\ Running
  /\ intervalOn
  /\ IF TickCommand = "none" THEN UNCHANGED pend ELSE Issue("tick", TickCommand)
  /\ emit' = NoEmit
  /\ ret' = NoRet
  /\ UNCHANGED <<hrVars, supVars, sdVars, exitVars, bpVars, cpc, dpc>>
  /\ Watch(<<"tick">>)

\* (variant) the state assigned before the command's result is known to be a
\* success
CommandSettled_Optimistic(src, cmd, ok) ==
  /\ Running
  /\ pend[<<src, cmd>>] > 0
  /\ ok => clientSet /\ clientConnected
  /\ pend' = [pend EXCEPT ![<<src, cmd>>] = @ - 1]
  /\ vibrationState' = cmd
  /\ emit' = IF ok THEN [ws |-> <<>>, ui |-> src] ELSE NoEmit
  /\ ret' = NoRet
  /\ UNCHANGED <<heartRate, supVars, sdVars, exitVars, bpVars, cpc, dpc>>
  /\ Watch(<<IF src = "tick" THEN "tickSettled" ELSE "manualSettled", ok, cmd>>)

\* the device command a suspended call awaits settled: on success the state
\* is set and the status notifier told, on failure the catch block only logs
CommandSettled(src, cmd, ok) ==
  /\ Running
  /\ pend[<<src, cmd>>] > 0
  /\ ok => clientSet /\ clientConnected
  /\ pend' = [pend EXCEPT ![<<src, cmd>>] = @ - 1]
  /\ IF ok
     THEN /\ vibrationState' = cmd
          /\ emit' = [ws |-> <<>>, ui |-> src]
     ELSE /\ UNCHANGED vibrationState
          /\ emit' = NoEmit
  /\ ret' = NoRet
  /\ UNCHANGED <<heartRate, supVars, sdVars, exitVars, bpVars, cpc, dpc>>
  /\ Watch(<<IF src = "tick" THEN "tickSettled" ELSE "manualSettled", ok, cmd>>)

\* rest of processHeartRate() after `await on()` / `await off()`
TickSettled(cmd, ok) == CommandSettled("tick", cmd, ok)

\* manualOn / manualOff of web_ui.js: handleUIControl(action) up to its await
handleUIControl(action) ==
  /\ Running
  /\ IF ~isReady THEN UNCHANGED pend ELSE Issue("ui", action)
  /\ emit' = NoEmit
  /\ ret' = NoRet
  /\ UNCHANGED <<hrVars, supVars, sdVars, exitVars, bpVars, cpc, dpc>>
  /\ Watch(<<"manual">>)

\* rest of handleUIControl() after its await
ControlSettled(action, ok) == CommandSettled("ui", action, ok)


\* --------------------------------------------------- telemetry server
\* wss.on('connection'): the Hello message
OnConnection(s) ==
  /\ Running
  /\ wssOpen
  /\ emit' = [ws |-> <<<<s, Hello>>>>, ui |-> "none"]
  /\ ret' = NoRet
  /\ UNCHANGED <<hrVars, supVars, sdVars, exitVars, bpVars, cpc, dpc, pend>>
  /\ Watch(<<"connection">>)

\* the message handler throws a TypeError: destructuring null, reading
\* d.requestType of an undefined d, destructuring an undefined requestData
MessageThrows(m) ==
  \/ m.kind = "null"
  \/ m.kind = "obj" /\ m.op = 6 /\ ~m.hasD
  \/ m.kind = "obj" /\ m.op = 6 /\ m.hasD
       /\ m.requestType = "SetInputSettings" /\ ~m.hasData

\* the heart rate the handler stores for payload m
MessageUpdate(m) ==
  /\ m.kind = "obj" /\ m.op = 6 /\ m.hasD /\ m.requestType = "SetInputSettings"
  /\ m.hasData /\ m.inputName = "heartrate"
  /\ m.hasSettings /\ m.text # <<>>
  /\ ~isNaN(parseInt(m.text))

\* what the handler passes to ws.send() for payload m on session s
MessageReply(s, m) ==
  IF m.kind = "notjson" \/ MessageThrows(m) THEN <<>>
  ELSE IF m.op = 1 THEN << <<s, Identified>> >>
  ELSE IF m.op = 6 /\ m.requestType = "SetInputSettings"
  THEN << <<s, RequestResponse(m.requestType, m.requestId)>> >>
  ELSE <<>>

\* ws.on('message') for payload m on session s; what it throws reaches the
\* 'uncaughtException' handler, which calls gracefulShutdown()
OnMessage(s, m) ==
  /\ Running
  /\ ret' = NoRet
  /\ UNCHANGED <<vibrationState, supVars, exitVars, bpRest, cpc, dpc, pend>>
  /\ IF m.kind # "notjson" /\ MessageThrows(m)
     THEN gracefulShutdown
     ELSE UNCHANGED <<sdVars, bpConn>>
  /\ heartRate' = IF MessageUpdate(m) THEN parseInt(m.text).val ELSE heartRate
  /\ emit' = [ws |-> MessageReply(s, m),
              ui |-> IF MessageUpdate(m) THEN "telemetry" ELSE "none"]
  /\ Watch(<<"message", m>>)

\* ------------------------------------------------ connection supervisor
\* (variant) the retry test turned into <=: one attempt too many
AfterConnect_Inclusive(timer) ==
  IF ret' = NoRet
  THEN /\ retryTimer' = timer
       /\ UNCHANGED connectRetries
  ELSE IF ret'[1] # "retry"
  THEN /\ retryTimer' = timer
       /\ UNCHANGED connectRetries
  ELSE IF ret'[2] = "ok"
  THEN /\ connectRetries' = 0
       /\ retryTimer' = timer
  ELSE /\ connectRetries' = connectRetries + 1
       /\ retryTimer' = IF connectRetries + 1 <= CONNECTION_RETRIES THEN TRUE ELSE timer

\* connectWithRetry() after `await connectToButtplug(...)` settled in this
\* step (ret'); timer is the retry timer's state if nothing is scheduled
AfterConnect(timer) ==
  IF ret' = NoRet
  THEN /\ retryTimer' = timer
       /\ UNCHANGED connectRetries
  ELSE IF ret'[1] # "retry"
  THEN /\ retryTimer' = timer
       /\ UNCHANGED connectRetries
  ELSE IF ret'[2] = "ok"
  THEN /\ connectRetries' = 0
       /\ retryTimer' = timer
  ELSE /\ connectRetries' = connectRetries + 1
       /\ retryTimer' = IF connectRetries + 1 < CONNECTION_RETRIES THEN TRUE ELSE timer

\* the setTimeout(connectWithRetry, RETRY_DELAY_MS) fires
connectWithRetry ==
  /\ Running
  /\ retryTimer
  /\ IF shutdownInProgress
     THEN /\ retryTimer' = FALSE
          /\ ret' = NoRet
          /\ UNCHANGED <<connectRetries, attempts, bpVars, cpc>>
     ELSE /\ ConnectCall("retry")
          /\ attempts' = attempts + 1
          /\ AfterConnect(FALSE)
  /\ emit' = NoEmit
  /\ UNCHANGED <<hrVars, sdVars, exitVars, dpc, pend>>
  /\ Watch(<<"retry">>)

\* a step of the connectToButtplug() that connectWithRetry() awaits; attempts
\* counts the attempts made since the last one that succeeded
Supervised(A) ==
  /\ Running
  /\ A
  /\ AfterConnect(retryTimer)
  /\ attempts' = IF ret' = <<"retry", "ok">> THEN 0 ELSE attempts
  /\ emit' = NoEmit
  /\ UNCHANGED <<hrVars, sdVars, exitVars, dpc, pend>>
  /\ Watch(<<"connect">>)

RetryConnectSettled(ok) == Supervised(ConnectSettled("retry", ok))
RetryScanSettled(ok) == Supervised(ScanSettled("retry", ok))
RetryDiscoveryTimeout == Supervised(DiscoveryTimeout("retry"))
RetryCleanupStopSettled == Supervised(CleanupStopSettled("retry"))
RetryCleanupDisconnectSettled == Supervised(CleanupDisconnectSettled("retry"))
OnDeviceAdded(d) == Supervised(DeviceAdded(d))
OnRemoteDrop == Supervised(RemoteDrop)

\* a timer callback of waitForDevice throws: 'uncaughtException'
Uncaught(A) ==
  /\ Running
  /\ A
  /\ gracefulShutdown
  /\ emit' = NoEmit
  /\ UNCHANGED <<hrVars, supVars, exitVars, dpc, pend>>
  /\ Watch(<<"connect">>)

RetryDiscoveryTimeoutThrow == Uncaught(DiscoveryTimeoutThrow("retry"))
OnStaleTimeoutThrow == Uncaught(StaleTimeoutThrow)

\* ----------------------------------------------------------- the program
Signals == {"SIGINT", "SIGTERM", "uncaughtException"}

\* after the module body of main.js ran: the first connectWithRetry() is
\* suspended in client.connect() and buttplugProc is the spawned process
Init ==
  /\ heartRate = 0
  /\ vibrationState = "off"
  /\ connectRetries = 0
  /\ shutdownInProgress = FALSE
  /\ intervalOn = TRUE
  /\ retryTimer = FALSE
  /\ wssOpen = TRUE
  /\ proc = "running"
  /\ exitCode = -1
  /\ cpc = [c \in Callers |-> IF c = "retry" THEN "connect" ELSE "idle"]
  /\ spc = "idle"
  /\ dpc = "idle"
  /\ pend = [k \in Srcs \X Cmds |-> 0]
  /\ clientSet = TRUE
  /\ clientConnected = FALSE
  /\ listening = FALSE
  /\ device = 0
  /\ isConnecting = TRUE
  /\ isConnected = FALSE
  /\ lastError = "null"
  /\ staleTimer = FALSE
  /\ emit = NoEmit
  /\ ret = NoRet
  /\ attempts = 1
  /\ teardownRuns = 0
  /\ sdLog = <<>>
  /\ failedSteps = {}
  /\ last = "other"
  /\ lastFailed = <<>>
  /\ received = FALSE
  /\ scen = ScenIdle

\* payloads of a telemetry client that sends heart-rate updates only, and one
\* payload the handler throws on
MainPayloads ==
  HeartRateRequests
  \cup { Payload("obj", 6, FALSE, Undefined, Undefined, FALSE, Undefined, FALSE, <<>>) }

FirstSession == CHOOSE s \in Sessions : \A t \in Sessions : s <= t

ShutdownSteps ==
  \/ \E ok \in BOOLEAN : ShutdownOffSettled(ok)
  \/ \E ok \in BOOLEAN : ShutdownStopSettled(ok)
  \/ \E ok \in BOOLEAN : ShutdownDisconnectSettled(ok)
  \/ \E ok \in BOOLEAN : ShutdownCloseSettled(ok)

ControlLoop ==
  \/ processHeartRate
  \/ \E cmd \in Cmds, ok \in BOOLEAN : TickSettled(cmd, ok)

ManualControl ==
  \/ \E action \in Cmds : handleUIControl(action)
  \/ \E action \in Cmds, ok \in BOOLEAN : ControlSettled(action, ok)

\* CleanupStopSettled is left out: connectWithRetry() starts no attempt once
\* a device was attached, so its catch block never finds a device to stop
Supervisor ==
  \/ connectWithRetry
  \/ \E ok \in BOOLEAN : RetryConnectSettled(ok)
  \/ \E ok \in BOOLEAN : RetryScanSettled(ok)
  \/ RetryDiscoveryTimeout
  \/ RetryDiscoveryTimeoutThrow
  \/ RetryCleanupDisconnectSettled
  \/ \E d \in Devices : OnDeviceAdded(d)
  \/ OnStaleTimeoutThrow

\* the whole program; its telemetry client sends MainPayloads on one session
Next ==
  \/ \E sig \in Signals : ShutdownTrigger(sig)
  \/ ShutdownSteps
  \/ ControlLoop
  \/ ManualControl
  \/ \E m \in MainPayloads : OnMessage(FirstSession, m)
  \/ Supervisor
  \/ OnRemoteDrop

Spec == Init /\ [][Next]_vars

\* the program driven by its telemetry clients alone, every payload on every
\* session: no signal, no manual command, no connection drop
NextTelemetry ==
  \/ \E s \in Sessions : OnConnection(s)
  \/ \E s \in Sessions, m \in Payloads : OnMessage(s, m)
  \/ ControlLoop
  \/ ShutdownSteps
  \/ Supervisor

SpecTelemetry == Init /\ [][NextTelemetry]_vars

\* ------------------------------------------------ bp.js under any caller
\* disconnectButtplug() up to the first suspension of its safeDisconnect()
DisconnectCall ==
  /\ dpc = "idle"
  /\ ret' = NoRet
  /\ UNCHANGED <<bpRest, cpc>>
  /\ LET ph == SafeDisconnectEntry IN
     CASE ph = "return" -> UNCHANGED <<bpConn, dpc>>
       [] ph = "stop" -> dpc' = "stop" /\ UNCHANGED bpConn
       [] ph = "disconnect" -> dpc' = "disconnect" /\ UNCHANGED bpConn
       [] ph = "finally" -> SafeDisconnectFinally /\ UNCHANGED dpc

\* device.stop() inside the safeDisconnect() of disconnectButtplug() settled
DisconnectStopSettled ==
  /\ dpc = "stop"
  /\ ret' = NoRet
  /\ UNCHANGED <<bpRest, cpc>>
  /\ IF SafeDisconnectAfterStop = "disconnect"
     THEN dpc' = "disconnect" /\ UNCHANGED bpConn
     ELSE dpc' = "idle" /\ SafeDisconnectFinally

\* client.disconnect() inside the safeDisconnect() of disconnectButtplug() settled
DisconnectDisconnectSettled ==
  /\ dpc = "disconnect"
  /\ ret' = NoRet
  /\ UNCHANGED <<bpRest, cpc>>
  /\ dpc' = "idle"
  /\ SafeDisconnectFinally

\* a step of bp.js that main.js takes no part in
Api(A) ==
  /\ A
  /\ emit' = NoEmit
  /\ UNCHANGED <<hrVars, supVars, sdVars, exitVars, pend>>
  /\ Watch(<<"api">>)

ApiConnectCall(c) == Api(ConnectCall(c) /\ UNCHANGED dpc)
ApiConnectSettled(c, ok) == Api(ConnectSettled(c, ok) /\ UNCHANGED dpc)
ApiScanSettled(c, ok) == Api(ScanSettled(c, ok) /\ UNCHANGED dpc)
ApiDiscoveryTimeout(c) == Api(DiscoveryTimeout(c) /\ UNCHANGED dpc)
ApiDiscoveryTimeoutThrow(c) == Api(DiscoveryTimeoutThrow(c) /\ UNCHANGED <<bpConn, dpc>>)
ApiCleanupStopSettled(c) == Api(CleanupStopSettled(c) /\ UNCHANGED dpc)
ApiCleanupDisconnectSettled(c) == Api(CleanupDisconnectSettled(c) /\ UNCHANGED dpc)
ApiDeviceAdded(d) == Api(DeviceAdded(d) /\ UNCHANGED dpc)
ApiRemoteDrop == Api(RemoteDrop /\ UNCHANGED dpc)
ApiStaleTimeout == Api(StaleTimeout /\ UNCHANGED dpc)
ApiStaleTimeoutThrow == Api(StaleTimeoutThrow /\ UNCHANGED <<bpConn, dpc>>)
ApiDisconnectCall == Api(DisconnectCall)
ApiDisconnectStopSettled == Api(DisconnectStopSettled)
ApiDisconnectDisconnectSettled == Api(DisconnectDisconnectSettled)

\* bp.js as loaded, before any call
InitBp ==
  /\ heartRate = 0
  /\ vibrationState = "off"
  /\ connectRetries = 0
  /\ shutdownInProgress = FALSE
  /\ intervalOn = TRUE
  /\ retryTimer = FALSE
  /\ wssOpen = TRUE
  /\ proc = "running"
  /\ exitCode = -1
  /\ cpc = [c \in Callers |-> "idle"]
  /\ spc = "idle"
  /\ dpc = "idle"
  /\ pend = [k \in Srcs \X Cmds |-> 0]
  /\ clientSet = FALSE
  /\ clientConnected = FALSE
  /\ listening = FALSE
  /\ device = 0
  /\ isConnecting = FALSE
  /\ isConnected = FALSE
  /\ lastError = "null"
  /\ staleTimer = FALSE
  /\ emit = NoEmit
  /\ ret = NoRet
  /\ attempts = 0
  /\ teardownRuns = 0
  /\ sdLog = <<>>
  /\ failedSteps = {}
  /\ last = "other"
  /\ lastFailed = <<>>
  /\ received = FALSE
  /\ scen = ScenIdle

NextBp ==
  \/ \E c \in Callers : ApiConnectCall(c)
  \/ \E c \in Callers, ok \in BOOLEAN : ApiConnectSettled(c, ok)
  \/ \E c \in Callers, ok \in BOOLEAN : ApiScanSettled(c, ok)
  \/ \E c \in Callers : ApiDiscoveryTimeout(c)
  \/ \E c \in Callers : ApiDiscoveryTimeoutThrow(c)
  \/ \E c \in Callers : ApiCleanupStopSettled(c)
  \/ \E c \in Callers : ApiCleanupDisconnectSettled(c)
  \/ \E d \in Devices : ApiDeviceAdded(d)
  \/ ApiRemoteDrop
  \/ ApiStaleTimeout
  \/ ApiStaleTimeoutThrow
  \/ ApiDisconnectCall
  \/ ApiDisconnectStopSettled
  \/ ApiDisconnectDisconnectSettled

SpecBp == InitBp /\ [][NextBp]_vars


\* ================================================================ claims

\* ---------------------------------------------------------------- C1
\* C1 as stated: whenever a tick that found the actuator ready is over, be it
\* without a command or with its command settled either way, ActuationState
\* is the state the threshold comparison asks for the sample the tick read
\* (a suspended tick awaits the command for exactly that state).
C1_EveryTickReachesDesired ==
  [][ /\ (processHeartRate /\ isReady /\ pend' = pend)
           => vibrationState' = Desired(heartRate)
      /\ \A cmd \in Cmds, ok \in BOOLEAN :
           TickSettled(cmd, ok) => vibrationState' = cmd ]_vars

\* C1 as amended: a tick that finds the actuator ready either finds
\* ActuationState equal to the state the threshold comparison asks for and
\* leaves it, or calls the command for that state; when that command succeeds
\* ActuationState becomes Engaged for a sample below the threshold and
\* Disengaged for a sample at or above it.
C1_TickReachesDesiredOnSuccess ==
  [][ /\ (processHeartRate /\ isReady)
           => IF pend' = pend
              THEN vibrationState' = Desired(heartRate)
              ELSE pend' = [pend EXCEPT ![<<"tick", Desired(heartRate)>>] = @ + 1]
      /\ \A cmd \in Cmds : TickSettled(cmd, TRUE) => vibrationState' = cmd ]_vars

\* a tick's engage() just succeeded for a sample below the threshold
C1_Witness ==
  /\ emit.ui = "tick"
  /\ vibrationState = "on"
  /\ heartRate < HR_THRESHOLD

\* ---------------------------------------------------------------- C2
\* C2: a tick that finds ActuationState equal to the state the threshold
\* comparison asks for calls no device command and changes neither the state
\* nor the sample, so the next tick finds the same and N ticks issue nothing.
C2_MatchingTickIssuesNothing ==
  [][ (processHeartRate /\ vibrationState = Desired(heartRate))
        => pend' = pend /\ vibrationState' = vibrationState /\ heartRate' = heartRate ]_vars

\* the third tick of the sample stream ran: sample 95 repeated, state Engaged
C2_Witness ==
  /\ scen.k = 3
  /\ scen.phase = "ticked"
  /\ vibrationState = Desired(heartRate)

\* ---------------------------------------------------------------- C3
\* C3: on every session, every Identify (op 1) is answered in the handler run
\* that receives it with exactly one Identified (op 2) on that session, and
\* every Request (op 6) that carries a requestId, whatever its requestType,
\* with exactly one RequestResponse (op 7) carrying the same requestId.
C3_ProtocolRoundTrip ==
  [][ \A s \in Sessions, m \in Payloads :
        OnMessage(s, m) =>
          /\ (m.kind = "obj" /\ m.op = 1) => emit'.ws = << <<s, Identified>> >>
          /\ (m.kind = "obj" /\ m.op = 6 /\ m.hasD /\ m.requestId # Undefined)
               => emit'.ws = << <<s, RequestResponse(m.requestType, m.requestId)>> >> ]_vars

\* ---------------------------------------------------------------- C4
\* a text that is a decimal integer: an optional sign, then digits only
C4_IsNumeric(t) ==
  LET v == IF t # <<>> /\ Head(t) \in {"-", "+"} THEN Tail(t) ELSE t
  IN v # <<>> /\ \A i \in 1..Len(v) : IsDigit(v[i])

\* C4: a heart-rate update Request whose text is not numeric leaves the sample
\* unchanged, tells the status notifier nothing, and is answered with a
\* success RequestResponse echoing the requestId.
C4_NonNumericTextIgnored ==
  [][ \A s \in Sessions, m \in HeartRateRequests :
        (OnMessage(s, m) /\ ~C4_IsNumeric(m.text)) =>
          /\ heartRate' = heartRate
          /\ emit'.ui = "none"
          /\ emit'.ws = << <<s, RequestResponse(m.requestType, m.requestId)>> >> ]_vars

\* ---------------------------------------------------------------- C5
\* C5: while no attempt has succeeded (attempts > 0), at most
\* CONNECTION_RETRIES attempts are made, an attempt is scheduled only while
\* none is running and fewer than CONNECTION_RETRIES have failed, every failed
\* attempt was counted, and when connectWithRetry() has come to rest without a
\* shutdown exactly CONNECTION_RETRIES attempts were made; from then on none
\* is scheduled or made.
C5_RetryBound ==
  /\ [](attempts > 0 =>
          /\ attempts <= CONNECTION_RETRIES
          /\ attempts = connectRetries + (IF cpc["retry"] = "idle" THEN 0 ELSE 1)
          /\ retryTimer => (cpc["retry"] = "idle" /\ connectRetries < CONNECTION_RETRIES)
          /\ (~shutdownInProgress /\ cpc["retry"] = "idle" /\ ~retryTimer)
               => attempts = CONNECTION_RETRIES)
  /\ [][ (attempts = CONNECTION_RETRIES /\ cpc["retry"] = "idle")
           => (attempts' = attempts /\ ~retryTimer' /\ cpc'["retry"] = "idle") ]_vars

\* the fifth attempt failed with no shutdown under way
C5_Witness ==
  /\ attempts = CONNECTION_RETRIES
  /\ connectRetries = CONNECTION_RETRIES
  /\ ret = <<"retry", "error">>
  /\ ~shutdownInProgress

\* ---------------------------------------------------------------- C6
\* C6: the teardown runs at most once and has run exactly once whenever
\* shutdownInProgress is true; once shutdownInProgress is true it stays true,
\* and a trigger that arrives then changes nothing of the run under way.
C6_ShutdownLatch ==
  /\ [](teardownRuns = IF shutdownInProgress THEN 1 ELSE 0)
  /\ [][ shutdownInProgress => shutdownInProgress' /\ teardownRuns' = teardownRuns ]_vars
  /\ [][ \A sig \in Signals : (ShutdownTrigger(sig) /\ shutdownInProgress)
           => UNCHANGED <<sdVars, bpVars, exitVars, hrVars>> ]_vars

\* a trigger arrived while the first run, past its off(), is suspended in
\* disconnectButtplug()
C6_Witness ==
  /\ last = "signal"
  /\ Logged("offDone")
  /\ spc \in {"stop", "disconnect"}
  /\ teardownRuns = 1

\* ---------------------------------------------------------------- C7
\* C7: a connectToButtplug() call made while isConnecting is true throws the
\* busy error in the same step and leaves isConnecting, client, device,
\* lastError and every suspended call where they were, so the attempt in
\* flight goes on from the state it would have had without the call.
C7_BusyCallChangesNothing ==
  [][ \A c \in Callers : (ApiConnectCall(c) /\ isConnecting)
        => /\ ret' = <<c, "busy">>
           /\ isConnecting'
           /\ UNCHANGED <<bpVars, cpc, dpc>> ]_vars

\* a second caller got the busy error while the first waits for a device
C7_Witness ==
  /\ ret = <<"api", "busy">>
  /\ isConnecting
  /\ cpc["retry"] = "wait"
  /\ cpc["api"] = "idle"

\* ---------------------------------------------------------------- C8
\* C8: in the sample stream 120, 95, 95, 105 with one tick after each sample,
\* started Disengaged with a ready actuator and with succeeding commands, the
\* states after the four ticks are off, on, on, off; ticks 2 and 4 await one
\* engage and one disengage, and two commands are issued in total.
C8_SampleStream ==
  /\ scen.phase = "ticked"
       => /\ vibrationState = <<"off", "on", "on", "off">>[scen.k]
          /\ scen.cmds = <<0, 1, 1, 2>>[scen.k]
          /\ InFlight = 0
  /\ scen.phase = "awaiting"
       => /\ scen.k \in {2, 4}
          /\ InFlight = 1
          /\ pend[<<"tick", IF scen.k = 2 THEN "on" ELSE "off">>] = 1

\* the fourth tick of the sample stream is over
C8_Witness ==
  /\ scen.k = 4
  /\ scen.phase = "ticked"

\* ---------------------------------------------------------------- C9
\* C9: whatever step of the shutdown sequence failed, once the process has
\* exited the actuator connection was torn down, the listener was closed and
\* the spawned process was killed.
C9_LaterStepsStillAttempted ==
  ~Running => /\ Logged("disconnect")
              /\ Logged("close")
              /\ Logged("kill")
              /\ ~wssOpen
              /\ proc = "killed"

\* ---------------------------------------------------------------- C10
\* the step that may directly follow a step in the shutdown sequence
C10_Follows(a, b) ==
  \/ a = "timer" /\ b \in {"off", "disconnect"}
  \/ a = "off" /\ b \in {"offDone", "offFailed"}
  \/ a = "offDone" /\ b = "disconnect"
  \/ a = "offFailed" /\ b = "exit"
  \/ a = "disconnect" /\ b = "disconnected"
  \/ a = "disconnected" /\ b = "close"
  \/ a = "close" /\ b = "closed"
  \/ a = "closed" /\ b = "kill"
  \/ a = "kill" /\ b = "exit"

\* C10: the shutdown sequence begins by stopping the tick timer; off() is
\* issued next exactly when the actuator is ready and Engaged; every step
\* starts only after the step before it finished (off, then the teardown of
\* the actuator connection, then the closing of the listener, then the kill
\* of the spawned process); the exit comes last and nothing runs after it.
C10_ShutdownOrder ==
  /\ [](/\ shutdownInProgress <=> sdLog # <<>>
        /\ sdLog # <<>> => (sdLog[1] = "timer" /\ ~intervalOn)
        /\ \A i \in 1..(Len(sdLog) - 1) : C10_Follows(sdLog[i], sdLog[i + 1])
        /\ ~Running <=> Logged("exit")
        /\ Logged("disconnected") => ~clientSet
        /\ Logged("close") => ~wssOpen
        /\ Logged("kill") <=> proc = "killed")
  /\ [][ \A sig \in Signals : (ShutdownTrigger(sig) /\ ~shutdownInProgress)
           => ((isReady /\ vibrationState = "on") <=> sdLog' = <<"timer", "off">>) ]_vars
  /\ [][ ~Running => UNCHANGED vars ]_vars

\* a shutdown that found the actuator Engaged ran through all its steps
C10_Witness ==
  sdLog = <<"timer", "off", "offDone", "disconnect", "disconnected",
            "close", "closed", "kill", "exit">>

\* ---------------------------------------------------------------- C11
\* C11: once the process has exited, its exit code is 0 exactly when no
\* awaited call of the shutdown sequence failed: not the off(), not the
\* device.stop() or client.disconnect() of the connection teardown, not the
\* closing of the listener.
C11_ExitCodeReportsFailure ==
  ~Running => (exitCode = 0 <=> failedSteps = {})

\* ---------------------------------------------------------------- C12
\* C12: a step changes ActuationState only if it is the successful end of an
\* on() or off() and sets the state that command stands for; when the on() or
\* off() of a tick or of a manual command fails, ActuationState keeps its
\* value and the status notifier is told nothing.
C12_StateFollowsSuccessOnly ==
  /\ [][ vibrationState' # vibrationState
           => \E src \in Srcs, cmd \in Cmds :
                CommandSettled(src, cmd, TRUE) /\ vibrationState' = cmd ]_vars
  /\ [][ \A src \in Srcs, cmd \in Cmds :
           CommandSettled(src, cmd, FALSE)
             => vibrationState' = vibrationState /\ emit'.ui = "none" ]_vars

\* the on() of a manual command just failed with the actuator Disengaged
C12_Witness ==
  /\ lastFailed = <<"manualSettled", "on">>
  /\ vibrationState = "off"
  /\ emit.ui = "none"

\* ---------------------------------------------------------------- C13
\* C13: a deviceadded event that arrives while a device is attached leaves
\* that device attached: no step replaces an attached device by another one.
C13_FirstDiscoveredWins ==
  [][ (device # 0 /\ device' # 0) => device' = device ]_vars

\* ---------------------------------------------------------------- C14
\* a payload that is not JSON, or is JSON without the expected shape
C14_Malformed(m) ==
  \/ m.kind \in {"notjson", "null"}
  \/ m.kind = "obj" /\ m.op = 6 /\ ~m.hasD
  \/ m.kind = "obj" /\ m.op = 6 /\ m.hasD
       /\ m.requestType = "SetInputSettings" /\ ~m.hasData

\* C14: a malformed inbound payload is dropped: the handler run that receives
\* it sends nothing, changes neither the sample nor ActuationState, leaves the
\* listener open and does not start the shutdown sequence.
C14_MalformedPayloadDropped ==
  [][ \A s \in Sessions, m \in Payloads :
        (OnMessage(s, m) /\ C14_Malformed(m))
          => /\ emit' = NoEmit
             /\ UNCHANGED <<hrVars, sdVars, exitVars>> ]_vars

\* ---------------------------------------------------------------- C15
\* C15: in every reachable state of bp.js the flags isConnecting and
\* isConnected of connectionStatus are not both true.
C15_NotConnectingAndConnected ==
  ~(isConnecting /\ isConnected)

\* ---------------------------------------------------------------- C16
\* C16: whatever happened before, a tick that finds the actuator ready, no
\* shutdown in progress and ActuationState different from the state the
\* threshold comparison asks for calls the command for that state; so the
\* tick after a failed command, with sample, comparison and readiness as they
\* were, calls the same command again.
C16_LevelTriggeredRetry ==
  [][ (processHeartRate /\ isReady /\ ~shutdownInProgress
         /\ vibrationState # Desired(heartRate))
        => /\ pend'[<<"tick", Desired(heartRate)>>] = pend[<<"tick", Desired(heartRate)>>] + 1
           /\ lastFailed = <<"tickSettled", Desired(heartRate)>> => last' = "retick" ]_vars

\* the tick after a failed engage() called engage() again
C16_Witness ==
  /\ last = "retick"
  /\ heartRate < HR_THRESHOLD
  /\ vibrationState = "off"
  /\ pend[<<"tick", "on">>] = 1

\* ---------------------------------------------------------------- C17
\* C17: at most one device command called by ticks awaits its result: a tick
\* that fires while the command of an earlier tick is still awaited calls no
\* second command.
C17_OneTickCommandInFlight ==
  pend[<<"tick", "on">>] + pend[<<"tick", "off">>] <= 1

\* ---------------------------------------------------------------- C18
\* C18: an inbound telemetry message, a step of a connection attempt (its
\* start, success or failure), a device announcement, a connection drop, a
\* shutdown trigger and every shutdown step leave ActuationState unchanged;
\* so does the start of a tick or of a manual command, whose device command
\* is then awaited: a step that changes ActuationState is none of these.
C18_ActuationStateFrame ==
  [][ vibrationState' # vibrationState
        => ~( \/ \E m \in MainPayloads : OnMessage(FirstSession, m)
              \/ Supervisor
              \/ OnRemoteDrop
              \/ \E sig \in Signals : ShutdownTrigger(sig)
              \/ ShutdownSteps
              \/ processHeartRate
              \/ \E action \in Cmds : handleUIControl(action) ) ]_vars

\* a telemetry message moved the sample across the threshold and the actuator
\* is still Engaged
C18_Witness ==
  /\ emit.ui = "telemetry"
  /\ heartRate >= HR_THRESHOLD
  /\ vibrationState = "on"

\* ---------------------------------------------------------------- C19
\* C19: the heart-rate sample is a non-negative integer in every reachable
\* state, whatever texts the heart-rate update Requests carry.
C19_SampleNonNegative ==
  heartRate \in Nat

\* ---------------------------------------------------------------- C20
\* C20: once shutdownInProgress is true no step calls on(): neither a tick
\* nor a manual command adds an engage command to those awaited.
C20_NoEngageDuringShutdown ==
  [][ shutdownInProgress
        => \A src \in Srcs : pend'[<<src, "on">>] <= pend[<<src, "on">>] ]_vars

C22_EngageBeforeFirstSample ==
  /\ [](~received => heartRate = 0)
  /\ [][ (processHeartRate /\ ~received /\ isReady /\ vibrationState = "off")
           => pend' = [pend EXCEPT ![<<"tick", "on">>] = @ + 1] ]_vars

\* the first tick after the device was attached called engage() with no
\* heart-rate update received
C22_Witness ==
  /\ ~received
  /\ heartRate = 0
  /\ vibrationState = "off"
  /\ pend = [k \in Srcs \X Cmds |-> IF k = <<"tick", "on">> THEN 1 ELSE 0]
  /\ emit = NoEmit

====
